---- MODULE Spec2Model ----
(***************************************************************************)
(* A priority queue based on an unbalanced, persistent binary search tree  *)
(* (src/src/pq.py).                                                        *)
(*                                                                         *)
(* Nodes are Python objects with reference identity, so the model keeps a  *)
(* heap: a sequence of node records, a node being named by its index and   *)
(* None by 0.  insert and remove allocate new nodes along the search path  *)
(* and reuse the other subtrees; special_merge writes into an existing     *)
(* node.  Objects that no container can reach any more are reclaimed and   *)
(* the survivors renumbered after each call (Collect), as node identities  *)
(* are not observable except through sharing.                              *)
(*                                                                         *)
(* assert statements are modelled as executed (the interpreter is run      *)
(* without -O, as the test-suite does).                                    *)
(***************************************************************************)
EXTENDS Integers, Sequences, FiniteSets, TLC

VARIABLES heap,     \* the Node objects: heap[n] = [value, left, right]
          root,     \* root[o]: the field `root` of the container object o
          held,     \* held[o]: the set of values o was given and not taken from
          last,     \* the last call: its name, its exception, what it returned
          input,    \* the argument of st_sort / pq_sort
          st_out,   \* what st_sort(input) returned
          pq_out,   \* what pq_sort(input) returned
          ran       \* which of the two sort functions have been called on input

vars == <<heap, root, held, last, input, st_out, pq_out, ran>>
sortvars == <<input, st_out, pq_out, ran>>

----------------------------------------------------------------------------
(* Bounds *)

MaxVal == 2          \* the values are 0..MaxVal
MaxLen == 3          \* the longest sequence handed to a constructor or a sort
MaxNodes == 5        \* the most nodes alive at once where containers share nodes

Val == 0..MaxVal

RECURSIVE SeqsUpTo(_)
SeqsUpTo(n) ==
    IF n = 0 THEN {<<>>}
    ELSE LET shorter == SeqsUpTo(n - 1)
         IN  shorter \cup {Append(s, v) : s \in {t \in shorter : Len(t) = n - 1}, v \in Val}

Data == SeqsUpTo(MaxLen)

----------------------------------------------------------------------------
(* Nodes and trees *)

None == 0

Node(value, left, right) == [value |-> value, left |-> left, right |-> right]

\* Node(...) evaluated against heap h: a new object, distinct from all others.
New(h, value, left, right) ==
    [h |-> Append(h, Node(value, left, right)), r |-> Len(h) + 1]

RECURSIVE contains(_, _, _)
contains(h, tree, val) ==
    IF tree = None THEN FALSE
    ELSE IF val < h[tree].value THEN contains(h, h[tree].left, val)
    ELSE IF val > h[tree].value THEN contains(h, h[tree].right, val)
    ELSE TRUE

\* insert with `else` in place of `if val > tree.value`: an equal value goes right
RECURSIVE insert_without_equal_case(_, _, _)
insert_without_equal_case(h, tree, val) ==
    IF tree = None THEN New(h, val, None, None)
    ELSE IF val < h[tree].value THEN
        LET sub == insert_without_equal_case(h, h[tree].left, val)
        IN  New(sub.h, h[tree].value, sub.r, h[tree].right)
    ELSE
        LET sub == insert_without_equal_case(h, h[tree].right, val)
        IN  New(sub.h, h[tree].value, h[tree].left, sub.r)

\* insert linking the new node into the tree it is given
RECURSIVE insert_in_place(_, _, _)
insert_in_place(h, tree, val) ==
    IF tree = None THEN New(h, val, None, None)
    ELSE IF val < h[tree].value THEN
        LET sub == insert_in_place(h, h[tree].left, val)
        IN  [h |-> [sub.h EXCEPT ![tree].left = sub.r], r |-> tree]
    ELSE IF val > h[tree].value THEN
        LET sub == insert_in_place(h, h[tree].right, val)
        IN  [h |-> [sub.h EXCEPT ![tree].right = sub.r], r |-> tree]
    ELSE [h |-> h, r |-> tree]

RECURSIVE insert(_, _, _)
insert(h, tree, val) ==
    IF tree = None THEN New(h, val, None, None)
    ELSE IF val < h[tree].value THEN
        LET sub == insert(h, h[tree].left, val)
        IN  New(sub.h, h[tree].value, sub.r, h[tree].right)
    ELSE IF val > h[tree].value THEN
        LET sub == insert(h, h[tree].right, val)
        IN  New(sub.h, h[tree].value, h[tree].left, sub.r)
    ELSE [h |-> h, r |-> tree]

\* Both extremum finders dereference their argument at once: on None they
\* raise AttributeError, which the callers below model before calling.
RECURSIVE rightmost(_, _)
rightmost(h, tree) ==
    IF h[tree].right # None THEN rightmost(h, h[tree].right) ELSE h[tree].value

\* leftmost with `if` in place of `while`: one step to the left at most
leftmost_one_step(h, tree) ==
    IF h[tree].left # None THEN h[h[tree].left].value ELSE h[tree].value

RECURSIVE leftmost(_, _)
leftmost(h, tree) ==
    IF h[tree].left # None THEN leftmost(h, h[tree].left) ELSE h[tree].value

\* remove taking the successor's value while still removing from the left
RECURSIVE remove_with_successor(_, _, _)
remove_with_successor(h, tree, val) ==
    IF tree = None THEN [h |-> h, r |-> None]
    ELSE IF val < h[tree].value THEN
        LET sub == remove_with_successor(h, h[tree].left, val)
        IN  New(sub.h, h[tree].value, sub.r, h[tree].right)
    ELSE IF val > h[tree].value THEN
        LET sub == remove_with_successor(h, h[tree].right, val)
        IN  New(sub.h, h[tree].value, h[tree].left, sub.r)
    ELSE IF h[tree].left = None THEN [h |-> h, r |-> h[tree].right]
    ELSE IF h[tree].right = None THEN [h |-> h, r |-> h[tree].left]
    ELSE LET rm_val == leftmost(h, h[tree].right)
             sub    == remove_with_successor(h, h[tree].left, rm_val)
         IN  New(sub.h, rm_val, sub.r, h[tree].right)

RECURSIVE remove(_, _, _)
remove(h, tree, val) ==
    IF tree = None THEN [h |-> h, r |-> None]
    ELSE IF val < h[tree].value THEN
        LET sub == remove(h, h[tree].left, val)
        IN  New(sub.h, h[tree].value, sub.r, h[tree].right)
    ELSE IF val > h[tree].value THEN
        LET sub == remove(h, h[tree].right, val)
        IN  New(sub.h, h[tree].value, h[tree].left, sub.r)
    ELSE IF h[tree].left = None THEN [h |-> h, r |-> h[tree].right]
    ELSE IF h[tree].right = None THEN [h |-> h, r |-> h[tree].left]
    ELSE LET rm_val == rightmost(h, h[tree].left)
             sub    == remove(h, h[tree].left, rm_val)
         IN  New(sub.h, rm_val, sub.r, h[tree].right)

RECURSIVE iterate(_, _)
iterate(h, tree) ==
    IF tree = None THEN <<>>
    ELSE iterate(h, h[tree].left) \o <<h[tree].value>> \o iterate(h, h[tree].right)

\* What a tree looks like from outside: <<>> for None, else <<left, value, right>>.
RECURSIVE shape(_, _)
shape(h, tree) ==
    IF tree = None THEN <<>>
    ELSE <<shape(h, h[tree].left), h[tree].value, shape(h, h[tree].right)>>

----------------------------------------------------------------------------
(* SearchTree and PriorityQueue, as functions of the heap and the root *)

\* SearchTree.__init__(data, tree): the root the new container ends up with.
RECURSIVE SearchTree_init(_, _, _)
SearchTree_init(h, data, tree) ==
    IF data = <<>> THEN [h |-> h, r |-> tree]
    ELSE LET s == insert(h, tree, Head(data))
         IN  SearchTree_init(s.h, Tail(data), s.r)

\* __bool__ answering "is it empty"
SearchTree_bool_true_when_empty(r) == r = None

\* SearchTree.__bool__
SearchTree_bool(r) == r # None

\* min_val reading the other end of the tree
min_val_rightmost(h, r) == rightmost(h, r)

\* PriorityQueue.min_val on a non-empty queue
min_val(h, r) == leftmost(h, r)

\* PriorityQueue.delete_min on a non-empty queue
delete_min(h, r) ==
    LET minimum == min_val(h, r)
        s       == remove(h, r, minimum)
    IN  [h |-> s.h, r |-> s.r, val |-> minimum]

\* st_sort(x): iter(SearchTree(x))
st_sort(h, x) ==
    LET t == SearchTree_init(h, x, None) IN iterate(t.h, t.r)

\* the loop of pq_sort: while pq.root: sorted.append(pq.delete_min())
RECURSIVE pq_sort_loop(_, _)
pq_sort_loop(h, r) ==
    IF r = None THEN [h |-> h, sorted |-> <<>>]
    ELSE LET d == delete_min(h, r)
         IN  [pq_sort_loop(d.h, d.r) EXCEPT !.sorted = <<d.val>> \o @]

\* pq_sort(x): the list it returns, and the heap its local queue leaves
pq_sort(h, x) ==
    LET pq == SearchTree_init(h, x, None) IN pq_sort_loop(pq.h, pq.r)

----------------------------------------------------------------------------
(* The merges, as functions of the heap and the two roots *)

\* general_merge calling insert(x.root, ...) without storing the new root
RECURSIVE general_merge_root_not_stored(_, _, _)
general_merge_root_not_stored(h, xr, yr) ==
    IF yr = None THEN [h |-> h, x |-> xr, y |-> yr, n |-> 0, returns |-> TRUE]
    ELSE LET d == delete_min(h, yr)
             s == insert(d.h, xr, d.val)
         IN  IF shape(d.h, d.r) = shape(h, yr)
             THEN [h |-> s.h, x |-> xr, y |-> d.r, n |-> 1, returns |-> FALSE]
             ELSE [general_merge_root_not_stored(s.h, xr, d.r) EXCEPT !.n = @ + 1]

\* general_merge: while y.root: x.insert(y.delete_min())
\* n counts the trips through the loop.  A trip that leaves y as it found it
\* is followed by the same trip for ever (the insert of the same value changes
\* nothing from then on): the loop does not end, and `returns` is FALSE.
RECURSIVE general_merge(_, _, _)
general_merge(h, xr, yr) ==
    IF yr = None THEN [h |-> h, x |-> xr, y |-> yr, n |-> 0, returns |-> TRUE]
    ELSE LET d == delete_min(h, yr)
             s == insert(d.h, xr, d.val)
         IN  IF shape(d.h, d.r) = shape(h, yr)
             THEN [h |-> s.h, x |-> s.r, y |-> d.r, n |-> 1, returns |-> FALSE]
             ELSE [general_merge(s.h, s.r, d.r) EXCEPT !.n = @ + 1]

\* the two-pointer loop without the two extends after it
RECURSIVE merged_without_rest(_, _)
merged_without_rest(pq1, pq2) ==
    IF pq1 = <<>> \/ pq2 = <<>> THEN <<>>
    ELSE IF Head(pq1) < Head(pq2)
         THEN <<Head(pq1)>> \o merged_without_rest(Tail(pq1), pq2)
         ELSE <<Head(pq2)>> \o merged_without_rest(pq1, Tail(pq2))

\* the two-pointer loop of general_merge_persistent and the two extends
RECURSIVE merged(_, _)
merged(pq1, pq2) ==
    IF pq1 = <<>> \/ pq2 = <<>> THEN pq1 \o pq2
    ELSE IF Head(pq1) < Head(pq2)
         THEN <<Head(pq1)>> \o merged(Tail(pq1), pq2)
         ELSE <<Head(pq2)>> \o merged(pq1, Tail(pq2))

\* general_merge_persistent past its two pq_sort calls: the new queue
general_merge_persistent(h, xr, yr) ==
    LET pq1 == pq_sort(h, iterate(h, xr))
        pq2 == pq_sort(pq1.h, iterate(pq1.h, yr))
    IN  SearchTree_init(pq2.h, merged(pq1.sorted, pq2.sorted), None)

\* the assertion with <= in place of <
precondition_not_strict(h, xr, yr) ==
    LET largest_x  == rightmost(h, xr)
        smallest_y == min_val(h, yr)
    IN  largest_x <= smallest_y

\* the precondition both special merges assert
precondition(h, xr, yr) ==
    LET largest_x  == rightmost(h, xr)
        smallest_y == min_val(h, yr)
    IN  largest_x < smallest_y

\* special_merge: tree = x.root; while tree.right: tree = tree.right
RECURSIVE rightmost_node(_, _)
rightmost_node(h, tree) ==
    IF h[tree].right # None THEN rightmost_node(h, h[tree].right) ELSE tree

\* the loop of special_merge without `tree = tree.right`
RECURSIVE special_merge_loop_not_advancing(_, _, _)
special_merge_loop_not_advancing(h, tree, yr) ==
    IF yr = None THEN [h |-> h, y |-> yr, returns |-> TRUE]
    ELSE LET d  == delete_min(h, yr)
             n  == New(d.h, d.val, None, None)
             h2 == [n.h EXCEPT ![tree].right = n.r]
         IN  IF shape(d.h, d.r) = shape(h, yr)
             THEN [h |-> h2, y |-> d.r, returns |-> FALSE]
             ELSE special_merge_loop_not_advancing(h2, tree, d.r)

\* special_merge: while y.root: tree.right = Node(y.delete_min()); tree = tree.right
\* A trip that leaves y as it found it is followed by the same trip for ever,
\* each attaching one more node: the loop does not end, and `returns` is FALSE.
RECURSIVE special_merge_loop(_, _, _)
special_merge_loop(h, tree, yr) ==
    IF yr = None THEN [h |-> h, y |-> yr, returns |-> TRUE]
    ELSE LET d  == delete_min(h, yr)
             n  == New(d.h, d.val, None, None)
             h2 == [n.h EXCEPT ![tree].right = n.r]
         IN  IF shape(d.h, d.r) = shape(h, yr)
             THEN [h |-> h2, y |-> d.r, returns |-> FALSE]
             ELSE special_merge_loop(h2, n.r, d.r)

\* special_merge past its assertion
special_merge(h, xr, yr) ==
    LET s == special_merge_loop(h, rightmost_node(h, xr), yr)
    IN  [h |-> s.h, x |-> xr, y |-> s.y, returns |-> s.returns]

\* special_merge_persistent concatenating pq1 with itself
special_merge_persistent_twice_x(h, xr, yr) ==
    LET pq1 == pq_sort(h, iterate(h, xr))
        pq2 == pq_sort(pq1.h, iterate(pq1.h, yr))
    IN  SearchTree_init(pq2.h, pq1.sorted \o pq1.sorted, None)

\* special_merge_persistent past its assertion: the new queue
special_merge_persistent(h, xr, yr) ==
    LET pq1 == pq_sort(h, iterate(h, xr))
        pq2 == pq_sort(pq1.h, iterate(pq1.h, yr))
    IN  SearchTree_init(pq2.h, pq1.sorted \o pq2.sorted, None)

----------------------------------------------------------------------------
(* Reclaiming unreachable nodes *)

\* The container objects: the two queues of the caller, "z", a container built
\* over the tree of another one (the `tree` argument of the constructor), and
\* "r", the queue a persistent merge returns, which the caller drops before its
\* next call.
Objs == <<"x", "y", "z", "r">>

RECURSIVE preorder(_, _)
preorder(h, tree) ==
    IF tree = None THEN <<>>
    ELSE <<tree>> \o preorder(h, h[tree].left) \o preorder(h, h[tree].right)

RECURSIVE FirstOccurrences(_, _)
FirstOccurrences(s, seen) ==
    IF s = <<>> THEN <<>>
    ELSE IF Head(s) \in seen THEN FirstOccurrences(Tail(s), seen)
    ELSE <<Head(s)>> \o FirstOccurrences(Tail(s), seen \cup {Head(s)})

RECURSIVE Reachable(_, _, _)
Reachable(h, rt, i) ==
    IF i > Len(Objs) THEN <<>>
    ELSE preorder(h, rt[Objs[i]]) \o Reachable(h, rt, i + 1)

\* The heap and the roots with the unreachable nodes dropped and the others
\* numbered in the order a walk from the containers meets them.
Collect(h, rt) ==
    LET live   == FirstOccurrences(Reachable(h, rt, 1), {})
        at(n)  == IF n = None THEN None
                  ELSE CHOOSE i \in 1..Len(live) : live[i] = n
    IN  [h  |-> [i \in 1..Len(live) |->
                    Node(h[live[i]].value, at(h[live[i]].left), at(h[live[i]].right))],
         rt |-> [o \in DOMAIN rt |-> at(rt[o])]]

----------------------------------------------------------------------------
(* The calls *)

\* The containers as they are when a call begins.
Before == [x |-> shape(heap, root["x"]), y |-> shape(heap, root["y"]),
           z |-> shape(heap, root["z"])]
NotKept == [x |-> <<>>, y |-> <<>>, z |-> <<>>]

NoVal == -1

\* A call: the function, the object it was called on (for a method), the
\* exception it raised ("" when it returned), the value it returned (NoVal when
\* none), the container it returned ("" when none), the queues before it, and
\* for insert and remove the value passed (NoVal otherwise), for general_merge
\* the number of trips through its loop.  A call whose loop does not end has
\* err = "never returns".
Called(op, obj, err, val, ret, pre) ==
    [op |-> op, obj |-> obj, err |-> err, val |-> val, ret |-> ret, pre |-> pre,
     arg |-> NoVal, trips |-> 0]

\* x = PriorityQueue(dx); y = PriorityQueue(dy)
Constructed(dx, dy) ==
    LET a == SearchTree_init(<<>>, dx, None)
        b == SearchTree_init(a.h, dy, None)
        c == Collect(b.h, [x |-> a.r, y |-> b.r, z |-> None, r |-> None])
    IN  /\ heap = c.h
        /\ root = c.rt
        /\ held = [x |-> {dx[i] : i \in 1..Len(dx)},
                   y |-> {dy[i] : i \in 1..Len(dy)},
                   z |-> {},
                   r |-> {}]
        /\ last = Called("__init__", "", "", NoVal, "", NotKept)

Init ==
    /\ \E dx \in Data, dy \in Data : Constructed(dx, dy)
    /\ input = <<>>
    /\ st_out = <<>>
    /\ pq_out = <<>>
    /\ ran = {}

\* The state a call leaves: heap h and roots rt, less what nothing refers to.
Leaves(h, rt) ==
    LET c == Collect(h, rt)
    IN  /\ heap' = c.h
        /\ root' = c.rt

\* The caller lets go of the queue an earlier persistent merge returned.
Dropped(rt) == [rt EXCEPT !["r"] = None]

\* o.insert(v)
Insert(o, v) ==
    LET s == insert(heap, root[o], v)
    IN  /\ Leaves(s.h, [Dropped(root) EXCEPT ![o] = s.r])
        /\ held' = [held EXCEPT ![o] = @ \cup {v}, !["r"] = {}]
        /\ last' = [Called("insert", o, "", NoVal, "", Before) EXCEPT !.arg = v]
        /\ UNCHANGED sortvars

\* o.remove(v)
Remove(o, v) ==
    LET s == remove(heap, root[o], v)
    IN  /\ Leaves(s.h, [Dropped(root) EXCEPT ![o] = s.r])
        /\ held' = [held EXCEPT ![o] = @ \ {v}, !["r"] = {}]
        /\ last' = [Called("remove", o, "", NoVal, "", Before) EXCEPT !.arg = v]
        /\ UNCHANGED sortvars

\* o.min_val: leftmost(None) raises AttributeError at `tree.left`
MinVal(o) ==
    /\ Leaves(heap, Dropped(root))
    /\ held' = [held EXCEPT !["r"] = {}]
    /\ last' = IF root[o] = None
               THEN Called("min_val", o, "AttributeError", NoVal, "", Before)
               ELSE Called("min_val", o, "", min_val(heap, root[o]), "", Before)
    /\ UNCHANGED sortvars

\* delete_min returning None from an empty queue
DeleteMin_silent_on_empty(o) ==
    /\ IF root[o] = None
       THEN /\ Leaves(heap, Dropped(root))
            /\ held' = [held EXCEPT !["r"] = {}]
            /\ last' = Called("delete_min", o, "", NoVal, "", Before)
       ELSE LET d == delete_min(heap, root[o])
            IN  /\ Leaves(d.h, [Dropped(root) EXCEPT ![o] = d.r])
                /\ held' = [held EXCEPT ![o] = @ \ {d.val}, !["r"] = {}]
                /\ last' = Called("delete_min", o, "", d.val, "", Before)
    /\ UNCHANGED sortvars

\* o.delete_min(): raises in self.min_val, before self.remove, when o is empty
DeleteMin(o) ==
    /\ IF root[o] = None
       THEN /\ Leaves(heap, Dropped(root))
            /\ held' = [held EXCEPT !["r"] = {}]
            /\ last' = Called("delete_min", o, "AttributeError", NoVal, "", Before)
       ELSE LET d == delete_min(heap, root[o])
            IN  /\ Leaves(d.h, [Dropped(root) EXCEPT ![o] = d.r])
                /\ held' = [held EXCEPT ![o] = @ \ {d.val}, !["r"] = {}]
                /\ last' = Called("delete_min", o, "", d.val, "", Before)
    /\ UNCHANGED sortvars

\* general_merge(x, y)
GeneralMerge ==
    LET m == general_merge(heap, root["x"], root["y"])
    IN  /\ Leaves(m.h, [root EXCEPT !["x"] = m.x, !["y"] = m.y, !["r"] = None])
        /\ held' = [held EXCEPT !["x"] = @ \cup held["y"],
                                !["y"] = IF m.returns THEN {} ELSE @,
                                !["r"] = {}]
        /\ last' = [Called("general_merge", "",
                           IF m.returns THEN "" ELSE "never returns",
                           NoVal, IF m.returns THEN "x" ELSE "", Before)
                      EXCEPT !.trips = m.n]
        /\ UNCHANGED sortvars

\* general_merge_persistent draining x and y themselves instead of copies
GeneralMergePersistent_draining ==
    LET m == general_merge_persistent(heap, root["x"], root["y"])
    IN  /\ Leaves(m.h, [root EXCEPT !["x"] = None, !["y"] = None, !["r"] = m.r])
        /\ held' = [held EXCEPT !["r"] = held["x"] \cup held["y"]]
        /\ last' = Called("general_merge_persistent", "", "", NoVal, "r", Before)
        /\ UNCHANGED sortvars

\* general_merge_persistent(x, y)
GeneralMergePersistent ==
    LET m == general_merge_persistent(heap, root["x"], root["y"])
    IN  /\ Leaves(m.h, [root EXCEPT !["r"] = m.r])
        /\ held' = [held EXCEPT !["r"] = held["x"] \cup held["y"]]
        /\ last' = Called("general_merge_persistent", "", "", NoVal, "r", Before)
        /\ UNCHANGED sortvars

\* What the first three lines of either special merge raise, if anything:
\* rightmost(None) and leftmost(None) raise AttributeError, the assert
\* AssertionError.
Raised(h, xr, yr) ==
    IF xr = None \/ yr = None THEN "AttributeError"
    ELSE IF ~precondition(h, xr, yr) THEN "AssertionError"
    ELSE ""

\* special_merge(x, y)
SpecialMerge ==
    LET err == Raised(heap, root["x"], root["y"])
    IN  /\ IF err # ""
           THEN /\ Leaves(heap, Dropped(root))
                /\ held' = [held EXCEPT !["r"] = {}]
                /\ last' = Called("special_merge", "", err, NoVal, "", Before)
           ELSE LET m == special_merge(heap, root["x"], root["y"])
                IN  /\ Leaves(m.h, [root EXCEPT !["x"] = m.x, !["y"] = m.y, !["r"] = None])
                    /\ held' = [held EXCEPT !["x"] = @ \cup held["y"],
                                            !["y"] = IF m.returns THEN {} ELSE @,
                                            !["r"] = {}]
                    /\ last' = Called("special_merge", "",
                                      IF m.returns THEN "" ELSE "never returns",
                                      NoVal, IF m.returns THEN "x" ELSE "", Before)
        /\ UNCHANGED sortvars

\* special_merge_persistent skipping its checks when a queue is empty
SpecialMergePersistent_accepting_empty ==
    LET xr  == root["x"]
        yr  == root["y"]
        err == IF xr = None \/ yr = None THEN "" ELSE Raised(heap, xr, yr)
    IN  /\ IF err # ""
           THEN /\ Leaves(heap, Dropped(root))
                /\ held' = [held EXCEPT !["r"] = {}]
                /\ last' = Called("special_merge_persistent", "", err, NoVal, "", Before)
           ELSE LET m == special_merge_persistent(heap, xr, yr)
                IN  /\ Leaves(m.h, [root EXCEPT !["r"] = m.r])
                    /\ held' = [held EXCEPT !["r"] = held["x"] \cup held["y"]]
                    /\ last' = Called("special_merge_persistent", "", "", NoVal, "r", Before)
        /\ UNCHANGED sortvars

\* special_merge_persistent(x, y)
SpecialMergePersistent ==
    LET err == Raised(heap, root["x"], root["y"])
    IN  /\ IF err # ""
           THEN /\ Leaves(heap, Dropped(root))
                /\ held' = [held EXCEPT !["r"] = {}]
                /\ last' = Called("special_merge_persistent", "", err, NoVal, "", Before)
           ELSE LET m == special_merge_persistent(heap, root["x"], root["y"])
                IN  /\ Leaves(m.h, [root EXCEPT !["r"] = m.r])
                    /\ held' = [held EXCEPT !["r"] = held["x"] \cup held["y"]]
                    /\ last' = Called("special_merge_persistent", "", "", NoVal, "r", Before)
        /\ UNCHANGED sortvars

\* No call is on record: the containers are as the constructor or the
\* caller's last statement left them.
Ready == last.op \in {"__init__", ""} /\ last.obj = ""

\* The caller is done with a call: it lets go of the queue the call returned,
\* if any, and of what it knew of the call.
LetGo ==
    /\ ~Ready
    /\ Leaves(heap, Dropped(root))
    /\ held' = [held EXCEPT !["r"] = {}]
    /\ last' = Called("", "", "", NoVal, "", NotKept)
    /\ UNCHANGED sortvars

\* The caller makes one call at a time.
Next ==
    \/ Ready /\ \E o \in {"x", "y"}, v \in Val : Insert(o, v)
    \/ Ready /\ \E o \in {"x", "y"}, v \in Val : Remove(o, v)
    \/ Ready /\ \E o \in {"x", "y"} : MinVal(o)
    \/ Ready /\ \E o \in {"x", "y"} : DeleteMin(o)
    \/ Ready /\ GeneralMerge
    \/ Ready /\ GeneralMergePersistent
    \/ Ready /\ SpecialMerge
    \/ Ready /\ SpecialMergePersistent
    \/ LetGo

Spec == Init /\ [][Next]_vars

----------------------------------------------------------------------------
(* Containers that share nodes *)

\* a = PriorityQueue(tree=b.root): the new container holds the root b holds
Wrap(a, b) ==
    LET s == SearchTree_init(heap, <<>>, root[b])
    IN  /\ Leaves(s.h, [Dropped(root) EXCEPT ![a] = s.r])
        /\ held' = [held EXCEPT ![a] = held[b], !["r"] = {}]
        /\ last' = Called("__init__", a, "", NoVal, "", Before)
        /\ UNCHANGED sortvars

\* A call whose loop does not end is the last thing the program does.
Hangs == last.err = "never returns"

\* Once special_merge has written into a shared node, trees may hold a value
\* twice and grow without limit; the calls are followed as long as MaxNodes
\* nodes are enough.
NextShare ==
    /\ ~Hangs
    /\ \/ Ready /\ Wrap("z", "x")
       \/ Ready /\ Wrap("y", "z")
       \/ Ready /\ \E v \in Val : Remove("x", v)
       \/ Ready /\ SpecialMerge
       \/ Ready /\ GeneralMerge
       \/ LetGo
    /\ Len(heap') <= MaxNodes

SpecShare == Init /\ [][NextShare]_vars

----------------------------------------------------------------------------
(* The sort helpers, each applied to the same argument *)

treevars == <<heap, root, held, last>>

InitSort ==
    /\ Constructed(<<>>, <<>>)
    /\ input \in Data
    /\ st_out = <<>>
    /\ pq_out = <<>>
    /\ ran = {}

\* tuple(st_sort(input))
StSort ==
    /\ "st_sort" \notin ran
    /\ st_out' = st_sort(heap, input)
    /\ ran' = ran \cup {"st_sort"}
    /\ UNCHANGED <<treevars, input, pq_out>>

\* tuple(pq_sort(input))
PqSort ==
    /\ "pq_sort" \notin ran
    /\ pq_out' = pq_sort(heap, input).sorted
    /\ ran' = ran \cup {"pq_sort"}
    /\ UNCHANGED <<treevars, input, st_out>>

NextSort == StSort \/ PqSort

SpecSort == InitSort /\ [][NextSort]_vars

----------------------------------------------------------------------------
(* What the properties below speak of *)

\* s as a set
Elements(s) == {s[i] : i \in 1..Len(s)}

\* the values a tree holds, its nodes
Values(h, tree) == Elements(iterate(h, tree))
Nodes(h, tree) == Elements(preorder(h, tree))

\* the in-order sequence of a shape, and its values
RECURSIVE flatten(_)
flatten(s) == IF s = <<>> THEN <<>> ELSE flatten(s[1]) \o <<s[2]>> \o flatten(s[3])

ValuesOf(s) == Elements(flatten(s))

Ascending(s) == \A i \in 1..Len(s) - 1 : s[i] < s[i + 1]

Least(S) == CHOOSE m \in S : \A n \in S : m <= n
Greatest(S) == CHOOSE m \in S : \A n \in S : m >= n

\* the ascending sequence of the set S
RECURSIVE SortedSeq(_)
SortedSeq(S) == IF S = {} THEN <<>> ELSE <<Least(S)>> \o SortedSeq(S \ {Least(S)})

\* BST order of the tree at `tree`
OrderedTree(h, tree) ==
    /\ \A n \in Nodes(h, tree) :
          /\ \A v \in Values(h, h[n].left) : v < h[n].value
          /\ \A v \in Values(h, h[n].right) : v > h[n].value
    /\ Len(iterate(h, tree)) = Cardinality(Values(h, tree))

Queues == {"x", "y"}

----------------------------------------------------------------------------
(* C1: a container behaves as a set. After any sequence of calls, iterating *)
(* a container yields exactly the values it was given and not taken from,   *)
(* strictly ascending and each once, and `v in container` is true exactly   *)
(* for those values.                                                        *)
ContainerIsSet ==
    \A o \in DOMAIN root :
        /\ iterate(heap, root[o]) = SortedSeq(held[o])
        /\ \A v \in Val : contains(heap, root[o], v) <=> v \in held[o]

\* a value was removed from a queue that keeps two others, inserted before
ContainerIsSetWitness ==
    /\ last.op = "remove"
    /\ held[last.obj] = {0, MaxVal}
    /\ iterate(heap, root[last.obj]) = <<0, MaxVal>>

(* C2: BST order is an invariant of every container's tree: each node's     *)
(* left subtree holds only smaller values, its right subtree only greater   *)
(* ones, and no value is in two nodes.                                      *)
BSTOrder == \A o \in DOMAIN root : OrderedTree(heap, root[o])

\* delete_min has left a queue of two nodes
BSTOrderWitness ==
    /\ last.op = "delete_min"
    /\ last.err = ""
    /\ Cardinality(Nodes(heap, root[last.obj])) = 2

(* C3: st_sort and pq_sort return the same sequence for every input, the    *)
(* strictly ascending sequence of the input's distinct values.              *)
SortsDistinctAscending ==
    /\ "st_sort" \in ran => st_out = SortedSeq(Elements(input))
    /\ "pq_sort" \in ran => pq_out = SortedSeq(Elements(input))
    /\ ran = {"st_sort", "pq_sort"} => st_out = pq_out

\* both have sorted an unsorted input with a repeated value
SortsDistinctAscendingWitness ==
    /\ ran = {"st_sort", "pq_sort"}
    /\ input = <<MaxVal, 0, MaxVal>>
    /\ st_out = <<0, MaxVal>>

(* C4: delete_min on a non-empty queue returns the smallest value held and  *)
(* leaves the queue with the other values; so calling it until the queue is *)
(* empty returns the values ascending, each once, in as many calls as there *)
(* were values.                                                             *)
DeleteMinTakesSmallest ==
    /\ (last.op = "delete_min" /\ last.pre[last.obj] # <<>>) =>
          /\ last.err = ""
          /\ last.val = Least(ValuesOf(last.pre[last.obj]))
          /\ Values(heap, root[last.obj]) = ValuesOf(last.pre[last.obj]) \ {last.val}
          /\ Len(iterate(heap, root[last.obj])) = Len(flatten(last.pre[last.obj])) - 1
    /\ \A o \in Queues :
          /\ pq_sort_loop(heap, root[o]).sorted = SortedSeq(Values(heap, root[o]))
          /\ Len(pq_sort_loop(heap, root[o]).sorted) = Cardinality(Nodes(heap, root[o]))

\* delete_min took the smallest of three values
DeleteMinTakesSmallestWitness ==
    /\ last.op = "delete_min"
    /\ last.val = 0
    /\ Len(flatten(last.pre[last.obj])) = 3
    /\ Len(pq_sort_loop(heap, root[last.obj]).sorted) = 2

(* C5: general_merge(x, y) returns x, which then iterates the ascending     *)
(* union of what x and y held, shared values once, and y is empty.          *)
GeneralMergeUnion ==
    last.op = "general_merge" =>
        /\ last.err = ""
        /\ last.ret = "x"
        /\ iterate(heap, root["x"]) =
              SortedSeq(ValuesOf(last.pre["x"]) \cup ValuesOf(last.pre["y"]))
        /\ root["y"] = None
        /\ ~SearchTree_bool(root["y"])

\* the queues merged shared a value and each had one the other lacked
GeneralMergeUnionWitness ==
    /\ last.op = "general_merge"
    /\ ValuesOf(last.pre["x"]) \cap ValuesOf(last.pre["y"]) # {}
    /\ ValuesOf(last.pre["x"]) \ ValuesOf(last.pre["y"]) # {}
    /\ ValuesOf(last.pre["y"]) \ ValuesOf(last.pre["x"]) # {}

(* C6: general_merge_persistent(x, y) returns a new queue that iterates the *)
(* ascending union of the values of x and y, shared values once, and x and  *)
(* y iterate the same sequences as before the call.                         *)
GeneralMergePersistentFrame ==
    last.op = "general_merge_persistent" =>
        /\ last.err = ""
        /\ last.ret = "r"
        /\ iterate(heap, root["r"]) =
              SortedSeq(ValuesOf(last.pre["x"]) \cup ValuesOf(last.pre["y"]))
        /\ Nodes(heap, root["r"]) \cap (Nodes(heap, root["x"]) \cup Nodes(heap, root["y"])) = {}
        /\ iterate(heap, root["x"]) = flatten(last.pre["x"])
        /\ iterate(heap, root["y"]) = flatten(last.pre["y"])

\* the queues merged shared a value and each had one the other lacked
GeneralMergePersistentFrameWitness ==
    /\ last.op = "general_merge_persistent"
    /\ ValuesOf(last.pre["x"]) \cap ValuesOf(last.pre["y"]) # {}
    /\ ValuesOf(last.pre["x"]) \ ValuesOf(last.pre["y"]) # {}
    /\ ValuesOf(last.pre["y"]) \ ValuesOf(last.pre["x"]) # {}
    /\ Len(iterate(heap, root["r"])) = 3

\* the queues before the last call are non-empty and max(x) < min(y)
RangesDisjoint ==
    /\ last.pre["x"] # <<>>
    /\ last.pre["y"] # <<>>
    /\ Greatest(ValuesOf(last.pre["x"])) < Least(ValuesOf(last.pre["y"]))

\* the queues before the last call are non-empty and max(x) >= min(y)
RangesOverlap ==
    /\ last.pre["x"] # <<>>
    /\ last.pre["y"] # <<>>
    /\ Greatest(ValuesOf(last.pre["x"])) >= Least(ValuesOf(last.pre["y"]))

(* C7: with x and y non-empty and max(x) < min(y), special_merge(x, y)      *)
(* returns x, whose tree is then in BST order and iterates the values of x  *)
(* followed by those of y, ascending, and y is empty.                       *)
SpecialMergeAppends ==
    (last.op = "special_merge" /\ RangesDisjoint) =>
        /\ last.err = ""
        /\ last.ret = "x"
        /\ OrderedTree(heap, root["x"])
        /\ iterate(heap, root["x"]) = flatten(last.pre["x"]) \o flatten(last.pre["y"])
        /\ Ascending(iterate(heap, root["x"]))
        /\ root["y"] = None

\* special_merge attached two values of y below the rightmost node of x
SpecialMergeAppendsWitness ==
    /\ last.op = "special_merge"
    /\ RangesDisjoint
    /\ Len(flatten(last.pre["y"])) = 2
    /\ Len(iterate(heap, root["x"])) = 3

(* C8: with x and y non-empty and max(x) < min(y),                          *)
(* special_merge_persistent(x, y) returns a new queue that iterates the     *)
(* values of x followed by those of y, ascending, and x and y iterate the   *)
(* same sequences as before the call.                                       *)
SpecialMergePersistentFrame ==
    (last.op = "special_merge_persistent" /\ RangesDisjoint) =>
        /\ last.err = ""
        /\ last.ret = "r"
        /\ iterate(heap, root["r"]) = flatten(last.pre["x"]) \o flatten(last.pre["y"])
        /\ Ascending(iterate(heap, root["r"]))
        /\ Nodes(heap, root["r"]) \cap (Nodes(heap, root["x"]) \cup Nodes(heap, root["y"])) = {}
        /\ iterate(heap, root["x"]) = flatten(last.pre["x"])
        /\ iterate(heap, root["y"]) = flatten(last.pre["y"])

\* special_merge_persistent returned a queue of three values, two from x
SpecialMergePersistentFrameWitness ==
    /\ last.op = "special_merge_persistent"
    /\ RangesDisjoint
    /\ Len(flatten(last.pre["x"])) = 2
    /\ Len(iterate(heap, root["r"])) = 3

(* C9: with x and y non-empty and max(x) >= min(y), both special merges     *)
(* fail instead of returning a queue, and x and y hold the same trees and   *)
(* iterate the same sequences as before the call.                           *)
SpecialMergeRejectsOverlap ==
    (last.op \in {"special_merge", "special_merge_persistent"} /\ RangesOverlap) =>
        /\ last.err = "AssertionError"
        /\ last.ret = ""
        /\ root["r"] = None
        /\ \A o \in Queues :
              /\ shape(heap, root[o]) = last.pre[o]
              /\ iterate(heap, root[o]) = flatten(last.pre[o])

\* special_merge was refused queues whose ranges meet in one value
SpecialMergeRejectsOverlapWitness ==
    /\ last.op = "special_merge"
    /\ last.err = "AssertionError"
    /\ Greatest(ValuesOf(last.pre["x"])) = Least(ValuesOf(last.pre["y"]))
    /\ Len(flatten(last.pre["x"])) = 2

(* C10: min_val and delete_min on an empty queue fail with an error instead *)
(* of returning a value, and the queue is still empty afterwards.           *)
EmptyQueueFails ==
    (last.op \in {"min_val", "delete_min"} /\ last.pre[last.obj] = <<>>) =>
        /\ last.err = "AttributeError"
        /\ last.val = NoVal
        /\ root[last.obj] = None
        /\ iterate(heap, root[last.obj]) = <<>>

\* delete_min was called on an empty queue, next to one that is not empty
EmptyQueueFailsWitness ==
    /\ last.op = "delete_min"
    /\ last.pre[last.obj] = <<>>
    /\ last.err = "AttributeError"
    /\ \E o \in Queues : root[o] # None

(* C11: the claim reads "the emptiness test returns true if and only if the *)
(* held root is empty".                                                     *)
BoolTrueIffEmpty ==
    \A o \in Queues : SearchTree_bool(root[o]) <=> root[o] = None

(* C11, amended: bool(container) is true if and only if the held root is    *)
(* not empty, that is, the container holds at least one value.              *)
BoolTrueIffNotEmpty ==
    \A o \in Queues :
        /\ SearchTree_bool(root[o]) <=> held[o] # {}
        /\ SearchTree_bool(root[o]) <=> iterate(heap, root[o]) # <<>>

\* remove has emptied one queue, false as a bool, next to one that is true
BoolTrueIffNotEmptyWitness ==
    /\ last.op = "remove"
    /\ last.pre[last.obj] # <<>>
    /\ ~SearchTree_bool(root[last.obj])
    /\ \E o \in Queues : SearchTree_bool(root[o])

\* v is a value the container o held when the last call began
HeldBefore(o, v) == v \in ValuesOf(last.pre[o])

(* C12: insert is idempotent on contents. Inserting a value already held    *)
(* leaves the iteration sequence and the membership set as they were, and   *)
(* insert(v) twice gives the contents insert(v) gives once.                 *)
InsertIdempotent ==
    /\ (last.op = "insert" /\ HeldBefore(last.obj, last.arg)) =>
          /\ iterate(heap, root[last.obj]) = flatten(last.pre[last.obj])
          /\ \A w \in Val : contains(heap, root[last.obj], w) <=> HeldBefore(last.obj, w)
    /\ \A o \in Queues, v \in Val :
          LET once  == insert(heap, root[o], v)
              twice == insert(once.h, once.r, v)
          IN  /\ iterate(twice.h, twice.r) = iterate(once.h, once.r)
              /\ \A w \in Val : contains(twice.h, twice.r, w) <=> contains(once.h, once.r, w)

\* a value held below the root of a container of three was inserted again
InsertIdempotentWitness ==
    /\ last.op = "insert"
    /\ HeldBefore(last.obj, last.arg)
    /\ Len(iterate(heap, root[last.obj])) = 3
    /\ heap[root[last.obj]].value # last.arg

\* how many nodes lie above the node holding v on the search path from tree
RECURSIVE Depth(_, _, _)
Depth(h, tree, v) ==
    IF h[tree].value = v THEN 0
    ELSE IF v < h[tree].value THEN 1 + Depth(h, h[tree].left, v)
    ELSE 1 + Depth(h, h[tree].right, v)

\* heap h2 has every node of h as it was, and maybe more
Extends(h2, h) == Len(h2) >= Len(h) /\ SubSeq(h2, 1, Len(h)) = h

(* C13: the claim reads "for any tree that already holds v, at the root or  *)
(* at any depth, insert(tree, v) allocates no new node and returns the same *)
(* node instance".                                                          *)
DuplicateInsertSameInstance ==
    \A t \in 1..Len(heap) : \A v \in Values(heap, t) :
        insert(heap, t, v) = [h |-> heap, r |-> t]

(* C13, amended: insert(tree, v) allocates nothing and returns the same     *)
(* node instance when v is held at the root of tree. When v is held below   *)
(* the root, it allocates one node for each node above the one holding v on *)
(* the search path and returns a new root of a tree of the same shape, in   *)
(* which the subtree off the path at the root is the same instance.         *)
DuplicateInsertCopiesPath ==
    \A t \in 1..Len(heap) : \A v \in Values(heap, t) :
        LET s == insert(heap, t, v)
        IN  /\ Extends(s.h, heap)
            /\ Len(s.h) = Len(heap) + Depth(heap, t, v)
            /\ shape(s.h, s.r) = shape(heap, t)
            /\ heap[t].value = v => s.r = t
            /\ v < heap[t].value => (s.r > Len(heap) /\ s.h[s.r].right = heap[t].right)
            /\ v > heap[t].value => (s.r > Len(heap) /\ s.h[s.r].left = heap[t].left)

\* a value held two nodes below the root was inserted again
DuplicateInsertCopiesPathWitness ==
    /\ last.op = "insert"
    /\ HeldBefore(last.obj, last.arg)
    /\ Depth(heap, root[last.obj], last.arg) = 2

SpecialMergeFailsOnEmpty ==
    (/\ last.op \in {"special_merge", "special_merge_persistent"}
     /\ (last.pre["x"] = <<>> \/ last.pre["y"] = <<>>)) =>
        /\ last.err = "AttributeError"
        /\ last.ret = ""
        /\ root["r"] = None
        /\ \A o \in Queues : shape(heap, root[o]) = last.pre[o]

\* special_merge_persistent was called with values in x and none in y
SpecialMergeFailsOnEmptyWitness ==
    /\ last.op = "special_merge_persistent"
    /\ last.pre["x"] # <<>>
    /\ last.pre["y"] = <<>>
    /\ last.err = "AttributeError"

(* C19: the merges agree. general_merge and general_merge_persistent, each  *)
(* applied to the same x and y, give queues that iterate the same sequence; *)
(* when x and y are not empty and max(x) < min(y), so do special_merge and  *)
(* special_merge_persistent.                                                *)
MergesAgree ==
    LET xr  == root["x"]
        yr  == root["y"]
        gm  == general_merge(heap, xr, yr)
        gmp == general_merge_persistent(heap, xr, yr)
    IN  /\ gm.returns
        /\ iterate(gm.h, gm.x) = iterate(gmp.h, gmp.r)
        /\ Raised(heap, xr, yr) = "" =>
              LET sm  == special_merge(heap, xr, yr)
                  smp == special_merge_persistent(heap, xr, yr)
              IN  /\ sm.returns
                  /\ iterate(sm.h, sm.x) = iterate(gm.h, gm.x)
                  /\ iterate(smp.h, smp.r) = iterate(gm.h, gm.x)

\* a remove from y has left x and y in disjoint ranges; before it they met
MergesAgreeWitness ==
    /\ Raised(heap, root["x"], root["y"]) = ""
    /\ Len(iterate(heap, root["x"])) = 2
    /\ last.op = "remove"
    /\ last.obj = "y"
    /\ Greatest(ValuesOf(last.pre["x"])) >= Least(ValuesOf(last.pre["y"]))


\* no node of heap h is modified in heap h2, and the trees x and y hold
\* have in h2 the shape and the sequence they had
SameTrees(h2, h) ==
    /\ Extends(h2, h)
    /\ \A o \in Queues :
          /\ shape(h2, root[o]) = shape(h, root[o])
          /\ iterate(h2, root[o]) = iterate(h, root[o])

\* C15: insert, remove, delete_min, general_merge and the two persistent
\* merges never modify an existing node: a tree root retained before the
\* call has the same shape and iterates the same sequence after it.  Checked
\* wherever a call can start, for each operation on the tree of x and of y,
\* and for x and y on both sides of a merge (the same root twice included):
\* every node of the heap is as it was, so are the trees x and y held.
NeverModifiesANode ==
    Ready =>
        /\ \A o \in Queues, v \in Val :
              /\ SameTrees(insert(heap, root[o], v).h, heap)
              /\ SameTrees(remove(heap, root[o], v).h, heap)
        /\ \A o \in Queues :
              root[o] # None => SameTrees(delete_min(heap, root[o]).h, heap)
        /\ \A a, b \in {root["x"], root["y"]} :
              /\ SameTrees(general_merge(heap, a, b).h, heap)
              /\ SameTrees(general_merge_persistent(heap, a, b).h, heap)
              /\ Raised(heap, a, b) = "" =>
                    SameTrees(special_merge_persistent(heap, a, b).h, heap)

\* after earlier calls x holds three values and y two; a remove on x builds
\* a tree of another shape under a new root, general_merge gives x a new
\* root, and the roots x and y hold now keep their trees
NeverModifiesANodeWitness ==
    /\ Ready
    /\ last.op = ""
    /\ Len(iterate(heap, root["x"])) = 3
    /\ Len(iterate(heap, root["y"])) = 2
    /\ \E v \in Val :
          LET s == remove(heap, root["x"], v)
          IN  /\ s.r # root["x"]
              /\ Len(s.h) > Len(heap)
              /\ shape(s.h, s.r) # shape(heap, root["x"])
              /\ shape(s.h, root["x"]) = shape(heap, root["x"])
    /\ LET m == general_merge(heap, root["x"], root["y"])
       IN  /\ m.x # root["x"]
           /\ Len(m.h) > Len(heap)
           /\ shape(m.h, root["x"]) = shape(heap, root["x"])
           /\ shape(m.h, root["y"]) = shape(heap, root["y"])

----------------------------------------------------------------------------
(* Containers that share nodes (SpecShare) *)

\* C14: after special_merge(x, y) has run with max(x) < min(y), the tree of
\* every container, a container built over another one's tree included, is in
\* BST order, iterates in strictly ascending order, and holds exactly the
\* values it iterates.
SharingKeepsBSTOrder ==
    (last.op = "special_merge" /\ last.err = "") =>
        \A o \in {"x", "y", "z"} :
            /\ OrderedTree(heap, root[o])
            /\ Ascending(iterate(heap, root[o]))
            /\ \A v \in Val : contains(heap, root[o], v) <=> v \in Values(heap, root[o])

\* C17: general_merge(x, y) returns, also when x and y were built over trees
\* that share nodes, after exactly one trip through its loop per value y
\* held when it was called (every trip takes one value out of y).
GeneralMergeTerminates ==
    last.op = "general_merge" =>
        /\ last.err = ""
        /\ last.trips = Len(flatten(last.pre["y"]))

====
